---- MODULE Spec2Model ----
(***************************************************************************)
(* NoteScheduler (src/src/scheduler.py) with the APScheduler job store it  *)
(* drives and the two places a batch can run from: the GUI thread          *)
(* (execute_now, called synchronously by SchedulerPanel._execute_now) and  *)
(* the timer (the job registered by add_job, run by the timer's executor). *)
(***************************************************************************)
EXTENDS Integers, Sequences, FiniteSets, TLC

(***************************************************************************)
(* Bounds of the model.                                                    *)
(***************************************************************************)
MaxBatchSize == 2
MaxRuns == 1
MaxRaceRuns == 2
MaxRaceSetups == 1
MaxCalls == 3
MaxPipelineSetups == 1
MaxDailySetups == 2
QuietRuns == 98
MaxLateRuns == 3
MaxConfigCalls == 2
MaxHistoryRuns == 2
MaxLimit == 3
MaxGitCalls == 2
MaxSaves == 3
MaxKeyLen == 3
MaxNotifyCalls == 2
MaxClock == 12

(***************************************************************************)
(* Program constants.                                                      *)
(***************************************************************************)
HistoryCap == 100
LogCap == 100
DailyHours == 24
SecondsPerHour == 3600
SecondsPerMinute == 60
SecondsPerDay == 86400

None == "None"
NoTime == -1

Executors == {"manual", "timer"}

(***************************************************************************)
(* Inputs.                                                                 *)
(***************************************************************************)
BatchSizes == 1..MaxBatchSize
SetupBatchSizes == {1, MaxBatchSize}
TopicPools == {<<"A">>, <<"A", "B">>}
JobPools == {<<"A">>, <<"B">>}
TimeStrs == {<<9, 0>>}
Nows == {8 * 3600}
HoursChoices == {1}
ConfigBatchSizes == {-1, 0, 1}
ConfigTimes == {<<9, 0>>, <<25, 0>>}
DailyTimes == {<<0, 0>>, <<9, 0>>, <<23, 59>>}
DailyNows == {0, 8 * 3600, 9 * 3600 - 1, 9 * 3600, 9 * 3600 + 1, 10 * 3600,
              23 * 3600 + 59 * 60, 24 * 3600 - 1}

Min(a, b) == IF a <= b THEN a ELSE b

\* a slice that keeps the oldest entries
FirstN(s, n) == IF Len(s) <= n THEN s ELSE SubSeq(s, 1, n)

\* s[-n:] for n > 0
LastN(s, n) == IF Len(s) <= n THEN s ELSE SubSeq(s, Len(s) - n + 1, Len(s))

VARIABLES
    scheduler, running, jobs,
    enabled, job_id, topics, config, stats, history, log_messages, logged,
    pc, batch_size, batch_topics, selected_topics, selected_pos, results,
    raised, cb_calls, cb_arg, ret,
    collab, runs, calls, appended, last_call,
    git_manager, file_manager, crypto_manager, notification_manager, clock

vars == <<scheduler, running, jobs,
          enabled, job_id, topics, config, stats, history, log_messages, logged,
          pc, batch_size, batch_topics, selected_topics, selected_pos, results,
          raised, cb_calls, cb_arg, ret,
          collab, runs, calls, appended, last_call,
          git_manager, file_manager, crypto_manager, notification_manager,
          clock>>

\* the objects NoteScheduler works with, and the wall clock
componentVars == <<git_manager, file_manager, crypto_manager,
                   notification_manager, clock>>

(***************************************************************************)
(* The timer library as NoteScheduler uses it: a job store keyed by job    *)
(* id.  A job carries its IntervalTrigger, the arguments bound by add_job, *)
(* whether it is paused, and k, the number of occurrences already          *)
(* consumed (next_run_time = start_date + k * interval).                   *)
(***************************************************************************)
IntervalTrigger(hours, start_date) == [hours |-> hours, start_date |-> start_date]

HasJob(js, id) == \E j \in js : j.id = id

get_job(js, id) == CHOOSE j \in js : j.id = id

next_run_time(j) ==
    IF j.paused THEN NoTime
    ELSE j.trigger.start_date + j.k * j.trigger.hours * SecondsPerHour

\* scheduler.remove_job(id); a missing id raises JobLookupError
remove_job(js, id) == {j \in js : j.id # id}

\* scheduler.add_job(..., id=id, replace_existing=True)
add_job(js, trigger, bs, tps, id) ==
    {j \in js : j.id # id} \cup
        {[id |-> id, trigger |-> trigger, batch_size |-> bs, topics |-> tps,
          paused |-> FALSE, k |-> 0]}

(***************************************************************************)
(* NoteScheduler helpers.                                                  *)
(***************************************************************************)
\* a setup that leaves the old job registered
_remove_job_keep(js) == js

\* _remove_job: removes the job named by self.job_id, swallowing the
\* lookup error; job_id itself is left as it is.
_remove_job(js) ==
    IF job_id # None /\ scheduler # None THEN remove_job(js, job_id) ELSE js

\* a log that is never cut
_log_uncapped(lm, entry) == Append(lm, entry)

\* _log: append, then keep the newest LogCap entries
_log(lm, entry) == LastN(Append(lm, entry), LogCap)

RECURSIVE LogAll(_, _)
LogAll(lm, entries) ==
    IF entries = <<>> THEN lm
    ELSE LogAll(_log(lm, Head(entries)), Tail(entries))

LogEntry(kind, i, topic, detail) ==
    [kind |-> kind, i |-> i, topic |-> topic, detail |-> detail]

\* self.config.get(key, default) for key = "batch_size"
ConfigBatchSize(c, default) ==
    IF "batch_size" \in DOMAIN c THEN c.batch_size ELSE default

EmptyConfig == [key \in {} |-> 0]

\* datetime.now() as the batch code reads it: a clock that has advanced
\* whenever a batch has been started
now == runs

InitScheduler ==
    /\ scheduler \in {"QtScheduler", None}
    /\ running = FALSE
    /\ jobs = {}
    /\ enabled = FALSE
    /\ job_id = None
    /\ topics = <<>>
    /\ config = EmptyConfig
    /\ stats = [total_runs |-> 0, success_count |-> 0, failed_count |-> 0,
                last_run |-> NoTime, next_run |-> NoTime]
    /\ history = <<>>
    /\ log_messages = <<>>
    /\ logged = <<>>
    /\ pc = [e \in Executors |-> "idle"]
    /\ batch_size = [e \in Executors |-> 0]
    /\ batch_topics = [e \in Executors |-> <<>>]
    /\ selected_topics = [e \in Executors |-> <<>>]
    /\ selected_pos = [e \in Executors |-> <<>>]
    /\ results = [e \in Executors |-> <<>>]
    /\ raised = [e \in Executors |-> None]
    /\ cb_calls = 0
    /\ cb_arg = [type |-> None, value |-> <<>>]
    /\ ret = None
    /\ collab = [e \in Executors |-> <<>>]
    /\ runs = 0
    /\ calls = 0
    /\ appended = <<>>
    /\ last_call = [op |-> "init", args |-> <<>>]

\* the result dictionary commit_and_push starts from
GitResult == [success |-> FALSE, added |-> FALSE, committed |-> FALSE,
              pushed |-> FALSE, error |-> None]

\* GitManager(repo_path, auto_commit, auto_push) with no call in progress;
\* cmds lists the git commands the current or last call has run
GitManager(auto_commit, auto_push) ==
    [auto_commit |-> auto_commit, auto_push |-> auto_push, pc |-> "idle",
     result |-> GitResult, cmds |-> <<>>, calls |-> 0]

\* the save directory (empty), the save each thread is in, and the paths
\* written so far in the order of the writes
Savers == {"panel", "batch"}
NoSave == [pc |-> "idle", filepath |-> None]
FileManager == [files |-> {}, saving |-> [t \in Savers |-> NoSave], written |-> <<>>]

\* no Fernet yet, and no API key in the configuration
CryptoManager ==
    [_fernet |-> None, origin |-> "none", api_key |-> <<>>, stored |-> <<>>,
     loaded |-> FALSE, decrypted |-> <<>>]

\* notification_manager.py:144-164; shown is what the last notify call has
\* put on the screen, quiet whether that call came with no notification in
\* the cooldown before it
NotificationCooldown == 10
NoneShown == [tray |-> FALSE, popup |-> FALSE]
NotificationManager ==
    [tray_notification_enabled |-> TRUE, popup_notification_enabled |-> TRUE,
     tray_supported |-> TRUE, last_notification_time |-> NoTime,
     calls |-> 0, op |-> "none", quiet |-> FALSE, shown |-> NoneShown]

\* the application as main_window builds it
InitComponents ==
    /\ git_manager = GitManager(TRUE, TRUE)
    /\ file_manager = FileManager
    /\ crypto_manager = CryptoManager
    /\ notification_manager = NotificationManager
    /\ clock = 0

Init == InitScheduler /\ InitComponents

batchVars == <<pc, batch_size, batch_topics, selected_topics, selected_pos,
               results, raised, collab, runs>>
trackVars == <<history, appended, cb_calls, cb_arg>>
\* everything NoteScheduler owns
schedulerVars == <<scheduler, running, jobs, enabled, job_id, topics, config,
                   stats, log_messages, logged, ret, calls, last_call,
                   batchVars, trackVars>>
\* logged holds every line handed to _log since the buffer was last emptied
\* last_call remembers the last call made on the GUI thread and its
\* arguments; for pause and resume, the job store the call found


(***************************************************************************)
(* setup_daily_job(time_str, batch_size, topics), called at time at.      *)
(* time_str is the pair map(int, time_str.split(':')) yields; instants are *)
(* seconds counted from the midnight before at.                            *)
(***************************************************************************)
ValidTime(time_str) ==
    /\ time_str[1] \in 0..23
    /\ time_str[2] \in 0..59

\* an anchor that is never moved to the next day
scheduled_time_today(at, time_str) ==
    time_str[1] * SecondsPerHour + time_str[2] * SecondsPerMinute

scheduled_time(at, time_str) ==
    LET t == time_str[1] * SecondsPerHour + time_str[2] * SecondsPerMinute
    IN  IF t < at THEN t + SecondsPerDay ELSE t

setup_daily_job(at, time_str, bs, tps) ==
    /\ pc["manual"] = "idle"
    /\ calls' = calls + 1
    /\ last_call' = [op |-> "setup_daily_job", args |-> <<at, time_str, bs, tps>>]
    /\ IF scheduler = None \/ ~ValidTime(time_str)
       THEN /\ ret' = FALSE
            /\ UNCHANGED <<jobs, job_id, config, topics, enabled, running,
                           stats, log_messages, logged>>
       ELSE LET st == scheduled_time(at, time_str)
                js == add_job(_remove_job(jobs),
                              IntervalTrigger(DailyHours, st), bs, tps,
                              "daily_note_generation")
                id == "daily_note_generation"
            IN  /\ jobs' = js
                /\ job_id' = id
                /\ config' = [mode |-> "daily", time |-> time_str,
                              batch_size |-> bs]
                /\ topics' = tps
                /\ enabled' = TRUE
                /\ running' = TRUE
                /\ stats' = [stats EXCEPT
                               !.next_run = next_run_time(get_job(js, id))]
                /\ log_messages' = _log(log_messages,
                       LogEntry("job_set", 0, "",
                                IF st < SecondsPerDay THEN "today"
                                ELSE "tomorrow"))
                /\ logged' = Append(logged,
                       LogEntry("job_set", 0, "",
                                IF st < SecondsPerDay THEN "today"
                                ELSE "tomorrow"))
                /\ ret' = TRUE
    /\ UNCHANGED <<componentVars, scheduler, batchVars, trackVars>>

(***************************************************************************)
(* setup_interval_job(hours, batch_size, topics), called at time at; the  *)
(* trigger built without start_date starts one interval after at.          *)
(***************************************************************************)
setup_interval_job(at, hours, bs, tps) ==
    /\ pc["manual"] = "idle"
    /\ calls' = calls + 1
    /\ last_call' = [op |-> "setup_interval_job", args |-> <<at, hours, bs, tps>>]
    /\ IF scheduler = None
       THEN /\ ret' = FALSE
            /\ UNCHANGED <<jobs, job_id, config, topics, enabled, running,
                           stats>>
       ELSE LET trigger == IntervalTrigger(hours, at + hours * SecondsPerHour)
                js == add_job(_remove_job(jobs), trigger, bs, tps,
                              "interval_note_generation")
                id == "interval_note_generation"
            IN  /\ jobs' = js
                /\ job_id' = id
                /\ config' = [mode |-> "interval", hours |-> hours,
                              batch_size |-> bs]
                /\ topics' = tps
                /\ enabled' = TRUE
                /\ running' = TRUE
                /\ stats' = [stats EXCEPT
                               !.next_run = next_run_time(get_job(js, id))]
                /\ ret' = TRUE
    /\ UNCHANGED <<componentVars, scheduler, log_messages, logged, batchVars, trackVars>>

(***************************************************************************)
(* The same two handlers when the timer refuses the job: add_job raises,   *)
(* after _remove_job has run, and the except clause returns False.         *)
(***************************************************************************)
setup_daily_job_refused(at, time_str, bs, tps) ==
    /\ pc["manual"] = "idle"
    /\ calls' = calls + 1
    /\ last_call' = [op |-> "setup_daily_job", args |-> <<at, time_str, bs, tps>>]
    /\ ret' = FALSE
    /\ jobs' = IF scheduler = None \/ ~ValidTime(time_str) THEN jobs
               ELSE _remove_job(jobs)
    /\ UNCHANGED <<componentVars, scheduler, job_id, config, topics, enabled, running, stats,
                   log_messages, logged, batchVars, trackVars>>

setup_interval_job_refused(at, hours, bs, tps) ==
    /\ pc["manual"] = "idle"
    /\ calls' = calls + 1
    /\ last_call' = [op |-> "setup_interval_job", args |-> <<at, hours, bs, tps>>]
    /\ ret' = FALSE
    /\ jobs' = IF scheduler = None THEN jobs ELSE _remove_job(jobs)
    /\ UNCHANGED <<componentVars, scheduler, job_id, config, topics, enabled, running, stats,
                   log_messages, logged, batchVars, trackVars>>

(***************************************************************************)
(* pause / resume: pause_job and resume_job raise JobLookupError for an id *)
(* the store does not hold; the handler swallows it before touching        *)
(* enabled.  A paused job has no next_run_time; resume_job gives it the    *)
(* trigger's pending occurrence again.                                     *)
(***************************************************************************)
pause ==
    /\ pc["manual"] = "idle"
    /\ last_call' = [op |-> "pause", args |-> <<jobs>>]
    /\ calls' = calls + 1
    /\ IF scheduler # None /\ job_id # None /\ HasJob(jobs, job_id)
       THEN /\ jobs' = {IF j.id = job_id THEN [j EXCEPT !.paused = TRUE] ELSE j
                        : j \in jobs}
            /\ enabled' = FALSE
       ELSE UNCHANGED <<jobs, enabled>>
    /\ UNCHANGED <<componentVars, scheduler, running, job_id, topics, config, stats,
                   log_messages, logged, ret, batchVars, trackVars>>

resume ==
    /\ pc["manual"] = "idle"
    /\ last_call' = [op |-> "resume", args |-> <<jobs>>]
    /\ calls' = calls + 1
    /\ IF scheduler # None /\ job_id # None /\ HasJob(jobs, job_id)
       THEN /\ jobs' = {IF j.id = job_id THEN [j EXCEPT !.paused = FALSE] ELSE j
                        : j \in jobs}
            /\ enabled' = TRUE
       ELSE UNCHANGED <<jobs, enabled>>
    /\ UNCHANGED <<componentVars, scheduler, running, job_id, topics, config, stats,
                   log_messages, logged, ret, batchVars, trackVars>>

(***************************************************************************)
(* SchedulerPanel._reset_scheduler (confirmed by the user): the panel's    *)
(* remove operation.                                                       *)
(***************************************************************************)
_reset_scheduler ==
    /\ pc["manual"] = "idle"
    /\ last_call' = [op |-> "_reset_scheduler", args |-> <<>>]
    /\ calls' = calls + 1
    /\ jobs' = _remove_job(jobs)
    /\ log_messages' = <<>>
    /\ logged' = <<>>
    /\ UNCHANGED <<componentVars, scheduler, running, enabled, job_id, topics, config, stats,
                   ret, batchVars, trackVars>>

(***************************************************************************)
(* _execute_batch, in three kinds of step per executor: the entry up to    *)
(* the topic selection, one pass of the for loop per selected topic, and   *)
(* the bookkeeping after the loop.                                         *)
(***************************************************************************)
Injective(f) == \A a, b \in DOMAIN f : f[a] = f[b] => a = b

\* a selection with replacement (random.choices)
sample_with_replacement(n, k) == [1..k -> 1..n]

\* random.sample(population of n positions, k): k pairwise different
\* positions in any order; a negative k raises ValueError
sample(n, k) == {f \in [1..k -> 1..n] : Injective(f)}

\* lines 264-272
BeginBatch(e, bs, tps) ==
    LET k == Min(bs, Len(tps))
        started == _log(log_messages, LogEntry("start", bs, "", ""))
    IN  /\ runs' = runs + 1
        /\ UNCHANGED <<results, collab>>
        /\ IF k < 0
           THEN /\ raised' = [raised EXCEPT ![e] = "ValueError"]
                /\ log_messages' = started
                /\ logged' = Append(logged, LogEntry("start", bs, "", ""))
                /\ UNCHANGED <<pc, batch_size, batch_topics, selected_pos,
                               selected_topics>>
           ELSE \E pos \in sample(Len(tps), k) :
                /\ raised' = [raised EXCEPT ![e] = None]
                /\ batch_size' = [batch_size EXCEPT ![e] = bs]
                /\ batch_topics' = [batch_topics EXCEPT ![e] = tps]
                /\ selected_pos' = [selected_pos EXCEPT ![e] = pos]
                /\ selected_topics' = [selected_topics EXCEPT
                                         ![e] = [i \in 1..k |-> tps[pos[i]]]]
                /\ log_messages' = _log(started, LogEntry("selected", k, "", ""))
                /\ logged' = logged \o <<LogEntry("start", bs, "", ""),
                                         LogEntry("selected", k, "", "")>>
                /\ pc' = [pc EXCEPT ![e] = "for"]

(***************************************************************************)
(* execute_now(batch_size): runs on the GUI thread, which stays inside     *)
(* the call until the batch has returned.                                  *)
(***************************************************************************)
\* an execute_now that stores the batch size it was given in the config
execute_now_storing(bs) ==
    /\ pc["manual"] = "idle"
    /\ last_call' = [op |-> "execute_now", args |-> <<bs>>]
    /\ BeginBatch("manual", IF bs = 0 THEN ConfigBatchSize(config, 1) ELSE bs,
                  topics)
    /\ config' = [mode |-> "manual", batch_size |-> bs]
    /\ UNCHANGED <<componentVars, scheduler, running, jobs, enabled, job_id, topics,
                   stats, ret, calls, trackVars>>

execute_now(bs) ==
    /\ pc["manual"] = "idle"
    /\ last_call' = [op |-> "execute_now", args |-> <<bs>>]
    /\ BeginBatch("manual", IF bs = 0 THEN ConfigBatchSize(config, 1) ELSE bs,
                  topics)
    /\ UNCHANGED <<componentVars, scheduler, running, jobs, enabled, job_id, topics, config,
                   stats, ret, calls, trackVars>>

(***************************************************************************)
(* The timer fires a registered, unpaused job: the store moves the job to  *)
(* its next occurrence and the executor calls _execute_batch with the      *)
(* arguments add_job bound.  One instance of a job runs at a time.         *)
(***************************************************************************)
\* a timer that runs paused jobs as well
Due_ignoring_pause(j) == TRUE

\* the store hands a job to the executor only while it has a next_run_time,
\* which pause_job takes away
Due(j) == ~j.paused

TimerFire ==
    /\ running
    /\ pc["timer"] = "idle"
    /\ \E j \in jobs :
         /\ Due(j)
         /\ jobs' = (jobs \ {j}) \cup {[j EXCEPT !.k = j.k + 1]}
         /\ BeginBatch("timer", j.batch_size, j.topics)
    /\ UNCHANGED <<componentVars, scheduler, running, enabled, job_id, topics, config,
                   stats, ret, calls, last_call, trackVars>>

(***************************************************************************)
(* get_history(limit): the slice self.history[-limit:].  A slice start     *)
(* below zero counts from the end and stops at the front of the list; a    *)
(* start of -0 is the start 0.                                             *)
(***************************************************************************)
SliceFrom(s, start) ==
    LET n == Len(s)
        first == IF start < 0 THEN (IF n + start < 0 THEN 0 ELSE n + start)
                 ELSE Min(start, n)
    IN  SubSeq(s, first + 1, n)

get_history(limit) ==
    /\ pc["manual"] = "idle"
    /\ last_call' = [op |-> "get_history", args |-> <<limit>>]
    /\ ret' = SliceFrom(history, 0 - limit)
    /\ UNCHANGED <<componentVars, scheduler, running, jobs, enabled, job_id, topics, config,
                   stats, log_messages, logged, calls, batchVars, trackVars>>

(***************************************************************************)
(* Collaborators.  A scenario says what generate, save and the git         *)
(* subprocess routine do for one topic: "ok", "fail" (a result with        *)
(* success False), "raise" (an exception), or "skip" when not called.      *)
(***************************************************************************)
Scenarios ==
    {s \in [gen : {"ok", "fail", "raise"},
            save : {"ok", "fail", "raise", "skip"},
            git : {"ok", "fail", "raise", "skip"}] :
        /\ (s.gen = "ok") = (s.save # "skip")
        /\ (s.save = "ok") = (s.git # "skip")}

\* GitManager.commit_and_push: the result of the subprocess routine, or
\* the default result with the exception text when that routine raises
commit_and_push(inner) ==
    IF inner = "ok" THEN [success |-> TRUE, error |-> None]
    ELSE IF inner = "fail" THEN [success |-> FALSE, error |-> "git_error"]
    ELSE [success |-> FALSE, error |-> "git_exception"]

\* the exception text the except clause of the loop receives
ErrorOf(s) ==
    IF s.gen = "fail" THEN "gen_error"
    ELSE IF s.gen = "raise" THEN "gen_exception"
    ELSE IF s.save = "fail" THEN "save_error"
    ELSE "save_exception"

\* a loop that does not look at save_result["success"]
Persisted_unchecked_save(s) == s.gen = "ok"

\* a loop that treats a failed push like a failed save
Persisted_needs_push(s) == s.gen = "ok" /\ s.save = "ok" /\ s.git = "ok"

\* the topic reaches results.append of the success branch (lines 283, 292)
Persisted(s) == s.gen = "ok" /\ s.save = "ok"

\* a loop whose except clause also reports success
TopicOutcome_always_success(topic, s) ==
    [topic |-> topic, status |-> "success", time |-> now]

\* the dictionary appended to results (lines 309-313 and 325-330)
TopicOutcome(topic, s) ==
    IF Persisted(s)
    THEN [topic |-> topic, status |-> "success", time |-> now]
    ELSE [topic |-> topic, status |-> "failed", error |-> ErrorOf(s),
          time |-> now]

\* an except clause that forgets its counter
CountOutcome_success_only(st, outcome) ==
    IF outcome.status = "success"
    THEN [st EXCEPT !.success_count = @ + 1]
    ELSE st

\* the counter update that follows the append (lines 315 and 331)
CountOutcome(st, outcome) ==
    IF outcome.status = "success"
    THEN [st EXCEPT !.success_count = @ + 1]
    ELSE [st EXCEPT !.failed_count = @ + 1]

\* a run counter advanced per topic
CountRun_per_topic(total_runs, res) == total_runs + Len(res)

\* line 334
CountRun(total_runs, res) == total_runs + 1

\* lines 276-331, one pass
ProcessTopic(e, scenarios) ==
    /\ pc[e] = "for"
    /\ Len(results[e]) < Len(selected_topics[e])
    /\ \E s \in scenarios :
         LET i == Len(results[e]) + 1
             topic == selected_topics[e][i]
             git_result == commit_and_push(s.git)
             lines ==
                 <<LogEntry("begin", i, topic, "")>>
                 \o (IF s.gen = "ok"
                     THEN <<LogEntry("generated", i, topic, "")>> ELSE <<>>)
                 \o (IF Persisted(s)
                     THEN <<LogEntry("saved", i, topic, "filepath"),
                            LogEntry("git", i, topic, ""),
                            IF git_result.success
                            THEN LogEntry("git_ok", i, topic, "")
                            ELSE LogEntry("git_failed", i, topic,
                                          git_result.error)>>
                     ELSE <<LogEntry("failed", i, topic, ErrorOf(s))>>)
         IN  /\ log_messages' = LogAll(log_messages, lines)
             /\ logged' = logged \o lines
             /\ collab' = [collab EXCEPT ![e] = Append(@, s)]
             /\ results' = [results EXCEPT
                              ![e] = Append(@, TopicOutcome(topic, s))]
             /\ stats' = CountOutcome(stats, TopicOutcome(topic, s))
    /\ UNCHANGED <<componentVars, scheduler, running, jobs, enabled, job_id, topics, config,
                   ret, calls, last_call, pc, batch_size, batch_topics, selected_topics,
                   selected_pos, raised, runs, history, appended, cb_calls,
                   cb_arg>>

\* lines 333-357.  get_job returns None for an id the store no longer
\* holds, and reading next_run_time of None raises AttributeError, which
\* leaves _execute_batch before the callback.
FinishBatch(e) ==
    /\ pc[e] = "for"
    /\ Len(results[e]) = Len(selected_topics[e])
    /\ history' = LastN(history \o results[e], HistoryCap)
    /\ appended' = appended \o results[e]
    /\ pc' = [pc EXCEPT ![e] = "idle"]
    /\ IF job_id # None /\ ~HasJob(jobs, job_id)
       THEN /\ stats' = [stats EXCEPT
                           !.total_runs = CountRun(@, results[e]),
                           !.last_run = now]
            /\ raised' = [raised EXCEPT ![e] = "AttributeError"]
            /\ UNCHANGED <<cb_calls, cb_arg>>
       ELSE /\ stats' = [stats EXCEPT
                           !.total_runs = CountRun(@, results[e]),
                           !.last_run = now,
                           !.next_run = IF job_id # None
                                        THEN next_run_time(get_job(jobs, job_id))
                                        ELSE @]
            /\ raised' = [raised EXCEPT ![e] = None]
            /\ cb_calls' = cb_calls + 1
            /\ cb_arg' = [type |-> "list", value |-> results[e]]
    \* the frame of the call is gone once it has returned
    /\ batch_size' = [batch_size EXCEPT ![e] = 0]
    /\ batch_topics' = [batch_topics EXCEPT ![e] = <<>>]
    /\ selected_topics' = [selected_topics EXCEPT ![e] = <<>>]
    /\ selected_pos' = [selected_pos EXCEPT ![e] = <<>>]
    /\ results' = [results EXCEPT ![e] = <<>>]
    /\ collab' = [collab EXCEPT ![e] = <<>>]
    /\ UNCHANGED <<componentVars, scheduler, running, jobs, enabled, job_id, topics, config,
                   log_messages, logged, ret, calls, last_call, runs>>

(***************************************************************************)
(* GitManager._commit_and_push_subprocess, one action per git command it   *)
(* runs.  What a command does is the environment's: it returns 0 ("ok"),   *)
(* returns non-zero ("fail"), runs into its timeout or cannot be started   *)
(* ("raise").  A failing commit may say "nothing to commit" on its stderr  *)
(* or on its stdout; a failing push prints any of the messages the code    *)
(* looks for.                                                              *)
(***************************************************************************)
PushMessages ==
    {"Authentication failed", "Permission denied", "failed to push some refs"}

RunOutcomes == {"ok", "fail", "timeout", "raise"}
CommitOutcomes == RunOutcomes \cup {"nothing_stderr", "nothing_stdout"}

Ran(cmd, out, output) == [cmd |-> cmd, out |-> out, output |-> output]

\* the two except clauses at the end of the routine
Caught(out) == IF out = "timeout" THEN "timeout" ELSE "exception"

\* the call reaches result["success"] = True
GitSucceeds(g) == [g EXCEPT !.pc = "idle", !.result.success = TRUE]

\* Step 3 is entered, or skipped when auto_push is off
ToPush(g) == IF g.auto_push THEN [g EXCEPT !.pc = "push"] ELSE GitSucceeds(g)

\* lines 277-291: the fresh result and the commit message, which
\* _format_commit_message always delivers
_commit_and_push_subprocess ==
    /\ git_manager.pc = "idle"
    /\ LET g == [git_manager EXCEPT !.calls = @ + 1, !.result = GitResult,
                                    !.cmds = <<>>]
       IN  git_manager' = IF g.auto_commit THEN [g EXCEPT !.pc = "add"]
                          ELSE ToPush(g)
    /\ UNCHANGED <<schedulerVars, file_manager, crypto_manager,
                   notification_manager, clock>>

\* an add whose exit status is not looked at
AddFailed_ignored(out) == FALSE

AddFailed(out) == out = "fail"

\* Step 1, lines 290-307
git_add(out) ==
    /\ git_manager.pc = "add"
    /\ LET g == [git_manager EXCEPT !.cmds = Append(@, Ran("add", out, {}))]
       IN  git_manager' =
             IF out \in {"timeout", "raise"}
             THEN [g EXCEPT !.pc = "idle", !.result.error = Caught(out)]
             ELSE IF AddFailed(out)
             THEN [g EXCEPT !.pc = "idle", !.result.error = "add_failed"]
             ELSE [g EXCEPT !.pc = "commit", !.result.added = TRUE]
    /\ UNCHANGED <<schedulerVars, file_manager, crypto_manager,
                   notification_manager, clock>>

\* Step 2, lines 309-331
git_commit(out) ==
    /\ git_manager.pc = "commit"
    /\ LET g == [git_manager EXCEPT !.cmds = Append(@, Ran("commit", out, {}))]
       IN  git_manager' =
             IF out \in {"timeout", "raise"}
             THEN [g EXCEPT !.pc = "idle", !.result.error = Caught(out)]
             ELSE IF out \in {"ok", "nothing_stderr"}
             THEN ToPush([g EXCEPT !.result.committed = TRUE])
             ELSE [g EXCEPT !.pc = "idle", !.result.error = "commit_failed"]
    /\ UNCHANGED <<schedulerVars, file_manager, crypto_manager,
                   notification_manager, clock>>

\* a push whose output is not classified
PushError_unclassified(output) == "push_failed"

\* lines 349-360
PushError(output) ==
    IF "Authentication failed" \in output \/ "Permission denied" \in output
    THEN "auth_failed"
    ELSE IF "failed to push some refs" \in output
    THEN "needs_pull"
    ELSE "push_failed"

\* Step 3, lines 333-362
git_push(out, output) ==
    /\ git_manager.pc = "push"
    /\ LET g == [git_manager EXCEPT !.cmds = Append(@, Ran("push", out, output))]
       IN  git_manager' =
             IF out \in {"timeout", "raise"}
             THEN [g EXCEPT !.pc = "idle", !.result.error = Caught(out)]
             ELSE IF out = "ok"
             THEN GitSucceeds([g EXCEPT !.result.pushed = TRUE])
             ELSE [g EXCEPT !.pc = "idle", !.result.error = PushError(output)]
    /\ UNCHANGED <<schedulerVars, file_manager, crypto_manager,
                   notification_manager, clock>>

(***************************************************************************)
(* FileManager.save (file_manager.py:121-200).  A path is the generated    *)
(* file name and its numeric suffix, 0 for the name without suffix.  The   *)
(* note panel saves on the GUI thread and the batch on the scheduler's     *)
(* worker thread, both through the one FileManager of the main window, so  *)
(* the search for a free path and the write of the file are two steps with *)
(* the other thread's steps between them.                                  *)
(***************************************************************************)
SaveTopics == {"A", "B"}

\* lines 152-159: the first of filename.md, filename_1.md, filename_2.md ...
\* that does not exist
FreePath(filename, files) ==
    LET n == CHOOSE k \in 0..Cardinality(files) :
                 /\ <<filename, k>> \notin files
                 /\ \A j \in 0..(k - 1) : <<filename, j>> \in files
    IN  <<filename, n>>

\* lines 150-159: thread t enters save and settles on its path
save(t, topic) ==
    /\ file_manager.saving[t].pc = "idle"
    /\ file_manager' =
         [file_manager EXCEPT !.saving[t] =
              [pc |-> "write", filepath |-> FreePath(topic, file_manager.files)]]
    /\ UNCHANGED <<schedulerVars, git_manager, crypto_manager,
                   notification_manager, clock>>

\* lines 181-200: open(filepath, 'w') creates or truncates the file; an
\* open that fails leaves the directory as it was and the result has error
save_write(t, ok) ==
    /\ file_manager.saving[t].pc = "write"
    /\ file_manager' =
         IF ok
         THEN [file_manager EXCEPT
                  !.files = @ \cup {file_manager.saving[t].filepath},
                  !.written = Append(@, file_manager.saving[t].filepath),
                  !.saving[t] = NoSave]
         ELSE [file_manager EXCEPT !.saving[t] = NoSave]
    /\ UNCHANGED <<schedulerVars, git_manager, crypto_manager,
                   notification_manager, clock>>

(***************************************************************************)
(* SpecFiles: the note panel and the batch save notes on topics of the     *)
(* same day into the same directory.                                       *)
(***************************************************************************)
InitFiles ==
    /\ InitScheduler
    /\ scheduler = "QtScheduler"
    /\ InitComponents

NextFiles ==
    \/ /\ Len(file_manager.written)
            + Cardinality({t \in Savers : file_manager.saving[t].pc = "write"})
              < MaxSaves
       /\ \E t \in Savers, topic \in SaveTopics : save(t, topic)
    \/ \E t \in Savers, ok \in BOOLEAN : save_write(t, ok)

SpecFiles == InitFiles /\ [][NextFiles]_vars

(***************************************************************************)
(* CryptoManager (crypto_utils.py:81-149).  A str is the sequence of its   *)
(* code points and a bytes value the sequence of its bytes, so that        *)
(* str.encode, bytes.decode and the Base64 codecs are computed as Python   *)
(* computes them.  Fernet is a keyed, reversible transformation of the     *)
(* bytes under a version byte, delivered as URL-safe Base64 text (its IV,  *)
(* timestamp and signature are left out).                                  *)
(***************************************************************************)
Ok(v) == [raised |-> FALSE, value |-> v]
Raised == [raised |-> TRUE, value |-> <<>>]

\* "encoded:" and "encrypted:"
Prefix_encoded == <<101, 110, 99, 111, 100, 101, 100, 58>>
Prefix_encrypted == <<101, 110, 99, 114, 121, 112, 116, 101, 100, 58>>
Colon == 58
B64Pad == 61
FernetKey == 7
FernetVersion == 128

\* str.startswith
StartsWith(s, prefix) ==
    Len(s) >= Len(prefix) /\ SubSeq(s, 1, Len(prefix)) = prefix

Prefixed(s) == StartsWith(s, Prefix_encrypted) \/ StartsWith(s, Prefix_encoded)

IsSurrogate(c) == c \in 55296..57343

\* str.encode(): UTF-8 of code points below 65536; a lone surrogate raises
RECURSIVE utf8_encode(_)
utf8_encode(s) ==
    IF s = <<>> THEN Ok(<<>>)
    ELSE LET c == Head(s)
             rest == utf8_encode(Tail(s))
             bytes == IF c < 128 THEN <<c>>
                      ELSE IF c < 2048 THEN <<192 + (c \div 64), 128 + (c % 64)>>
                      ELSE <<224 + (c \div 4096), 128 + ((c \div 64) % 64),
                             128 + (c % 64)>>
         IN  IF IsSurrogate(c) \/ rest.raised THEN Raised
             ELSE Ok(bytes \o rest.value)

\* bytes.decode(): UTF-8 sequences of one to three bytes; anything else raises
RECURSIVE utf8_decode(_)
utf8_decode(b) ==
    IF b = <<>> THEN Ok(<<>>)
    ELSE LET n == IF b[1] < 128 THEN 1
                  ELSE IF b[1] \in 194..223 THEN 2
                  ELSE IF b[1] \in 224..239 THEN 3
                  ELSE 0
         IN  IF n = 0 \/ Len(b) < n THEN Raised
             ELSE IF \E i \in 2..n : b[i] \notin 128..191 THEN Raised
             ELSE LET c == IF n = 1 THEN b[1]
                           ELSE IF n = 2 THEN ((b[1] - 192) * 64) + (b[2] - 128)
                           ELSE ((b[1] - 224) * 4096) + ((b[2] - 128) * 64)
                                    + (b[3] - 128)
                      rest == utf8_decode(SubSeq(b, n + 1, Len(b)))
                  IN  IF (n = 3 /\ c < 2048) \/ IsSurrogate(c) \/ rest.raised
                      THEN Raised
                      ELSE Ok(<<c>> \o rest.value)

\* the character of a sextet: A-Z a-z 0-9 and + / (or - _ when URL-safe)
B64Char(i, urlsafe) ==
    IF i < 26 THEN 65 + i
    ELSE IF i < 52 THEN 97 + (i - 26)
    ELSE IF i < 62 THEN 48 + (i - 52)
    ELSE IF i = 62 THEN (IF urlsafe THEN 45 ELSE 43)
    ELSE (IF urlsafe THEN 95 ELSE 47)

\* the sextet of a character, -1 for a character outside the alphabet;
\* urlsafe_b64decode maps - and _ to + and / and then decodes as usual
B64Value(c, urlsafe) ==
    IF c \in 65..90 THEN c - 65
    ELSE IF c \in 97..122 THEN 26 + (c - 97)
    ELSE IF c \in 48..57 THEN 52 + (c - 48)
    ELSE IF c = 43 \/ (urlsafe /\ c = 45) THEN 62
    ELSE IF c = 47 \/ (urlsafe /\ c = 95) THEN 63
    ELSE -1

\* base64.b64encode / base64.urlsafe_b64encode
RECURSIVE b64encode(_, _)
b64encode(b, urlsafe) ==
    IF b = <<>> THEN <<>>
    ELSE IF Len(b) = 1
    THEN <<B64Char(b[1] \div 4, urlsafe), B64Char((b[1] % 4) * 16, urlsafe),
           B64Pad, B64Pad>>
    ELSE IF Len(b) = 2
    THEN <<B64Char(b[1] \div 4, urlsafe),
           B64Char(((b[1] % 4) * 16) + (b[2] \div 16), urlsafe),
           B64Char((b[2] % 16) * 4, urlsafe), B64Pad>>
    ELSE <<B64Char(b[1] \div 4, urlsafe),
           B64Char(((b[1] % 4) * 16) + (b[2] \div 16), urlsafe),
           B64Char(((b[2] % 16) * 4) + (b[3] \div 64), urlsafe),
           B64Char(b[3] % 64, urlsafe)>>
             \o b64encode(SubSeq(b, 4, Len(b)), urlsafe)

\* the sextets of a text up to its end or to a padding that completes a
\* group of four; characters outside the alphabet are skipped
RECURSIVE b64scan(_, _, _, _)
b64scan(text, urlsafe, sextets, pads) ==
    IF text = <<>> THEN [sextets |-> sextets, padded |-> FALSE]
    ELSE IF Head(text) = B64Pad
    THEN IF Len(sextets) % 4 >= 2
         THEN IF (Len(sextets) % 4) + pads + 1 >= 4
              THEN [sextets |-> sextets, padded |-> TRUE]
              ELSE b64scan(Tail(text), urlsafe, sextets, pads + 1)
         ELSE b64scan(Tail(text), urlsafe, sextets, pads)
    ELSE IF B64Value(Head(text), urlsafe) < 0
    THEN b64scan(Tail(text), urlsafe, sextets, pads)
    ELSE b64scan(Tail(text), urlsafe,
                 Append(sextets, B64Value(Head(text), urlsafe)), 0)

RECURSIVE b64bytes(_)
b64bytes(sextets) ==
    IF Len(sextets) < 2 THEN <<>>
    ELSE LET b1 == (sextets[1] * 4) + (sextets[2] \div 16)
         IN  IF Len(sextets) = 2 THEN <<b1>>
             ELSE LET b2 == ((sextets[2] % 16) * 16) + (sextets[3] \div 4)
                  IN  IF Len(sextets) = 3 THEN <<b1, b2>>
                      ELSE <<b1, b2, ((sextets[3] % 4) * 64) + sextets[4]>>
                             \o b64bytes(SubSeq(sextets, 5, Len(sextets)))

\* base64.b64decode / base64.urlsafe_b64decode of a str or of bytes: a
\* str with a non-ASCII character and a text with incorrect padding raise
b64decode(text, urlsafe) ==
    LET scan == b64scan(text, urlsafe, <<>>, 0)
    IN  IF \E i \in 1..Len(text) : text[i] >= 128 THEN Raised
        ELSE IF scan.padded \/ Len(scan.sextets) % 4 = 0
        THEN Ok(b64bytes(scan.sextets))
        ELSE Raised

\* Fernet.encrypt: the token, itself URL-safe Base64 text
fernet_encrypt(data) ==
    b64encode(<<FernetVersion>>
                 \o [i \in 1..Len(data) |-> (data[i] + FernetKey) % 256], TRUE)

\* Fernet.decrypt: raises InvalidToken on anything that is not a token
fernet_decrypt(token) ==
    LET d == b64decode(token, TRUE)
    IN  IF d.raised THEN Raised
        ELSE IF d.value = <<>> THEN Raised
        ELSE IF d.value[1] # FernetVersion THEN Raised
        ELSE Ok([i \in 1..(Len(d.value) - 1) |->
                    (d.value[i + 1] + 256 - FernetKey) % 256])

\* lines 81-104; in the fallback the encode is outside any try
encrypt(plaintext) ==
    IF plaintext = <<>> THEN Ok(<<>>)
    ELSE LET b == utf8_encode(plaintext)
         IN  IF crypto_manager._fernet = None
             THEN IF b.raised THEN Raised
                  ELSE Ok(Prefix_encoded \o b64encode(b.value, FALSE))
             ELSE IF b.raised THEN Ok(<<>>)
                  ELSE Ok(Prefix_encrypted
                            \o b64encode(fernet_encrypt(b.value), TRUE))

\* a content that still holds the prefix
Content_unsplit(ciphertext) == ciphertext

\* ciphertext.split(":", 1)[1]
Content(ciphertext) ==
    LET colon == CHOOSE i \in 1..Len(ciphertext) :
                     /\ ciphertext[i] = Colon
                     /\ \A j \in 1..(i - 1) : ciphertext[j] # Colon
    IN  SubSeq(ciphertext, colon + 1, Len(ciphertext))

\* lines 106-149
decrypt(ciphertext) ==
    IF ciphertext = <<>> THEN <<>>
    ELSE IF ~Prefixed(ciphertext) THEN ciphertext
    ELSE IF StartsWith(ciphertext, Prefix_encoded)
    THEN LET decoded == b64decode(Content(ciphertext), FALSE)
         IN  IF decoded.raised THEN <<>>
             ELSE IF utf8_decode(decoded.value).raised THEN <<>>
             ELSE utf8_decode(decoded.value).value
    ELSE IF crypto_manager._fernet = None THEN <<>>
    ELSE LET encrypted_data == b64decode(Content(ciphertext), TRUE)
         IN  IF encrypted_data.raised THEN <<>>
             ELSE IF fernet_decrypt(encrypted_data.value).raised THEN <<>>
             ELSE IF utf8_decode(fernet_decrypt(encrypted_data.value).value).raised
             THEN <<>>
             ELSE utf8_decode(fernet_decrypt(encrypted_data.value).value).value

RECURSIVE StrsUpTo(_, _)
StrsUpTo(alphabet, n) ==
    IF n = 0 THEN {<<>>}
    ELSE LET shorter == StrsUpTo(alphabet, n - 1)
         IN  shorter \cup {Append(s, c) : s \in shorter, c \in alphabet}

\* the characters - k e-acute and a lone surrogate
KeyChars == {45, 107, 233, 55296}
ApiKeys == StrsUpTo(KeyChars, MaxKeyLen)

\* keys written into the configuration by hand, among them keys that begin
\* like an encrypted one: "encoded:", "encoded:k", "encoded:a2s=", ...
LegacyTails == {<<>>, <<107>>, <<97, 50, 115, 61>>}
LegacyKeys ==
    StrsUpTo(KeyChars, 2)
        \cup {Prefix_encoded \o t : t \in LegacyTails}
        \cup {Prefix_encrypted \o t : t \in LegacyTails}

\* config_panel.py:275-282: the key typed into the panel is stored encrypted
save_api_key(api_key) ==
    /\ LET r == encrypt(api_key)
       IN  crypto_manager' =
             [crypto_manager EXCEPT
                 !.origin = IF r.raised THEN "raised" ELSE "encrypted",
                 !.api_key = api_key, !.stored = r.value,
                 !.loaded = FALSE, !.decrypted = <<>>]
    /\ UNCHANGED <<schedulerVars, git_manager, file_manager,
                   notification_manager, clock>>

\* a configuration that holds the key as it was typed (older versions)
legacy_api_key(api_key) ==
    /\ crypto_manager' =
         [crypto_manager EXCEPT !.origin = "legacy", !.api_key = api_key,
                                !.stored = api_key, !.loaded = FALSE,
                                !.decrypted = <<>>]
    /\ UNCHANGED <<schedulerVars, git_manager, file_manager,
                   notification_manager, clock>>

\* main_window.py:181-182: the stored key is decrypted for use
load_api_key ==
    /\ crypto_manager.origin \in {"encrypted", "legacy"}
    /\ ~crypto_manager.loaded
    /\ crypto_manager' =
         [crypto_manager EXCEPT !.loaded = TRUE,
                                !.decrypted = decrypt(crypto_manager.stored)]
    /\ UNCHANGED <<schedulerVars, git_manager, file_manager,
                   notification_manager, clock>>

(***************************************************************************)
(* SpecCrypto: API keys are stored and loaded with or without a Fernet.    *)
(***************************************************************************)
InitCrypto ==
    /\ InitScheduler
    /\ scheduler = "QtScheduler"
    /\ git_manager = GitManager(TRUE, TRUE)
    /\ file_manager = FileManager
    /\ \E f \in {None, "Fernet"} :
          crypto_manager = [CryptoManager EXCEPT !._fernet = f]
    /\ notification_manager = NotificationManager
    /\ clock = 0

NextCrypto ==
    \/ \E api_key \in ApiKeys : save_api_key(api_key)
    \/ \E api_key \in LegacyKeys : legacy_api_key(api_key)
    \/ load_api_key

SpecCrypto == InitCrypto /\ [][NextCrypto]_vars

(***************************************************************************)
(* NotificationManager (notification_manager.py:239-385).  The clock       *)
(* counts seconds; the two show calls of one notify call read it within    *)
(* the same second.                                                        *)
(***************************************************************************)
\* lines 374-381
_is_in_cooldown(nm, current_time) ==
    IF nm.last_notification_time = NoTime THEN FALSE
    ELSE current_time - nm.last_notification_time < NotificationCooldown

\* lines 239-268; showMessage may raise, which is logged
show_tray_notification(nm, current_time, raises) ==
    IF ~nm.tray_notification_enabled THEN nm
    ELSE IF ~nm.tray_supported THEN nm
    ELSE IF _is_in_cooldown(nm, current_time) THEN nm
    ELSE IF raises THEN nm
    ELSE [nm EXCEPT !.shown.tray = TRUE, !.last_notification_time = current_time]

\* lines 270-297
show_popup_notification(nm, current_time) ==
    IF ~nm.popup_notification_enabled THEN nm
    ELSE IF _is_in_cooldown(nm, current_time) THEN nm
    ELSE [nm EXCEPT !.shown.popup = TRUE, !.last_notification_time = current_time]

\* the tray call and then the popup call of a notify_job_* method
Notify(op, raises) ==
    LET nm == [notification_manager EXCEPT
                  !.calls = @ + 1, !.op = op, !.shown = NoneShown,
                  !.quiet = ~_is_in_cooldown(notification_manager, clock)]
    IN  /\ notification_manager' =
             show_popup_notification(
                 show_tray_notification(nm, clock, raises), clock)
        /\ UNCHANGED <<schedulerVars, git_manager, file_manager,
                       crypto_manager, clock>>

\* lines 299-342, called with the dict of a finished job
notify_job_complete(raises) == Notify("notify_job_complete", raises)

\* lines 344-361
notify_job_failed(raises) == Notify("notify_job_failed", raises)

\* lines 363-372
set_notifications_enabled(tray_enabled, popup_enabled) ==
    /\ notification_manager' =
         [notification_manager EXCEPT
             !.tray_notification_enabled = tray_enabled,
             !.popup_notification_enabled = popup_enabled]
    /\ UNCHANGED <<schedulerVars, git_manager, file_manager,
                   crypto_manager, clock>>

\* time passes
Tick(seconds) ==
    /\ clock + seconds <= MaxClock
    /\ clock' = clock + seconds
    /\ UNCHANGED <<schedulerVars, git_manager, file_manager, crypto_manager,
                   notification_manager>>

(***************************************************************************)
(* SpecNotify: jobs complete or fail at any time, on a desktop with or     *)
(* without a tray that shows messages.                                     *)
(***************************************************************************)
InitNotify ==
    /\ InitScheduler
    /\ scheduler = "QtScheduler"
    /\ git_manager = GitManager(TRUE, TRUE)
    /\ file_manager = FileManager
    /\ crypto_manager = CryptoManager
    /\ \E supported \in BOOLEAN :
          notification_manager =
              [NotificationManager EXCEPT !.tray_supported = supported]
    /\ clock = 0

NextNotify ==
    \/ /\ notification_manager.calls < MaxNotifyCalls
       /\ \E raises \in BOOLEAN :
             \/ notify_job_complete(raises)
             \/ notify_job_failed(raises)
    \/ \E tray_enabled, popup_enabled \in BOOLEAN :
          set_notifications_enabled(tray_enabled, popup_enabled)
    \/ \E seconds \in {1, NotificationCooldown} : Tick(seconds)

SpecNotify == InitNotify /\ [][NextNotify]_vars

(***************************************************************************)
(* SpecGit: commit_and_push called again and again on a GitManager built   *)
(* with either setting of auto_commit and auto_push.                       *)
(***************************************************************************)
InitGit ==
    /\ InitScheduler
    /\ scheduler = "QtScheduler"
    /\ \E ac, ap \in BOOLEAN : git_manager = GitManager(ac, ap)
    /\ file_manager = FileManager
    /\ crypto_manager = CryptoManager
    /\ notification_manager = NotificationManager
    /\ clock = 0

NextGit ==
    \/ git_manager.calls < MaxGitCalls /\ _commit_and_push_subprocess
    \/ \E out \in RunOutcomes : git_add(out)
    \/ \E out \in CommitOutcomes : git_commit(out)
    \/ \E out \in RunOutcomes \ {"fail"} : git_push(out, {})
    \/ \E output \in SUBSET PushMessages : git_push("fail", output)

SpecGit == InitGit /\ [][NextGit]_vars

(***************************************************************************)
(* Spec: the job life cycle driven from the GUI thread together with the   *)
(* timer; every topic is generated, saved and pushed.                      *)
(***************************************************************************)
JobScenarios == {s \in Scenarios : s.git = "ok"}

Next ==
    \/ /\ calls < MaxCalls
       /\ \E at \in Nows, time_str \in TimeStrs, bs \in SetupBatchSizes,
             tps \in JobPools : setup_daily_job(at, time_str, bs, tps)
    \/ /\ calls < MaxCalls
       /\ \E at \in Nows, hours \in HoursChoices, bs \in SetupBatchSizes,
             tps \in JobPools : setup_interval_job(at, hours, bs, tps)
    \/ calls < MaxCalls /\ pause
    \/ calls < MaxCalls /\ resume
    \/ calls < MaxCalls /\ _reset_scheduler
    \/ runs < MaxRuns /\ \E bs \in SetupBatchSizes : execute_now(bs)
    \/ runs < MaxRuns /\ TimerFire
    \/ \E e \in Executors : ProcessTopic(e, JobScenarios)
    \/ \E e \in Executors : FinishBatch(e)

Spec == Init /\ [][Next]_vars

(***************************************************************************)
(* SpecRace: one interval job, fired by the timer while the GUI thread     *)
(* calls execute_now.                                                      *)
(***************************************************************************)
NextRace ==
    \/ /\ calls < MaxRaceSetups
       /\ \E at \in Nows, hours \in HoursChoices, tps \in TopicPools :
             setup_interval_job(at, hours, 1, tps)
    \/ runs < MaxRaceRuns /\ \E bs \in BatchSizes : execute_now(bs)
    \/ runs < MaxRaceRuns /\ TimerFire
    \/ \E e \in Executors : ProcessTopic(e, JobScenarios)
    \/ \E e \in Executors : FinishBatch(e)

SpecRace == Init /\ [][NextRace]_vars

(***************************************************************************)
(* SpecPipeline: batches started by execute_now under every collaborator   *)
(* scenario, before and after one setup_interval_job, in runs that end     *)
(* before the job's first occurrence is due.                               *)
(***************************************************************************)
NextPipeline ==
    \/ /\ calls < MaxPipelineSetups
       /\ \E at \in Nows, hours \in HoursChoices, tps \in TopicPools :
             setup_interval_job(at, hours, 1, tps)
    \/ runs < MaxRuns /\ \E bs \in BatchSizes : execute_now(bs)
    \/ \E e \in Executors : ProcessTopic(e, Scenarios)
    \/ \E e \in Executors : FinishBatch(e)

SpecPipeline == Init /\ [][NextPipeline]_vars

(***************************************************************************)
(* SpecDaily: setup_daily_job over anchor times and call times on both     *)
(* sides of the anchor, with the timer running the job.                    *)
(***************************************************************************)
NextDaily ==
    \/ /\ calls < MaxDailySetups
       /\ \E at \in DailyNows, time_str \in DailyTimes, tps \in JobPools :
             setup_daily_job(at, time_str, 1, tps)
    \/ runs < MaxRuns /\ TimerFire
    \/ \E e \in Executors : ProcessTopic(e, JobScenarios)
    \/ \E e \in Executors : FinishBatch(e)

SpecDaily == Init /\ [][NextDaily]_vars

(***************************************************************************)
(* SpecCap: QuietRuns one-topic batches that all succeed, then batches of  *)
(* up to MaxBatchSize topics that succeed or fail in the generator, which  *)
(* carry the history and the log over their caps.                          *)
(***************************************************************************)
CapScenarios == {s \in Scenarios : s.gen = "fail" \/ s.git = "ok"}

NextCap ==
    \/ /\ calls = 0
       /\ \E at \in Nows, hours \in HoursChoices :
             setup_interval_job(at, hours, 1, <<"A">>)
    \/ /\ calls = 1
       /\ runs = QuietRuns
       /\ pc["manual"] = "idle"
       /\ \E at \in Nows, hours \in HoursChoices :
             setup_interval_job(at, hours, 1, <<"A", "B">>)
    \/ /\ calls = 1
       /\ runs < QuietRuns
       /\ execute_now(1)
    \/ /\ calls = 2
       /\ runs < QuietRuns + MaxLateRuns
       /\ \E bs \in BatchSizes : execute_now(bs)
    \/ \E e \in Executors :
          ProcessTopic(e, IF runs <= QuietRuns THEN JobScenarios
                          ELSE CapScenarios)
    \/ \E e \in Executors : FinishBatch(e)

SpecCap == Init /\ [][NextCap]_vars

(***************************************************************************)
(* SpecConfig: setup calls with batch sizes below one, with an anchor      *)
(* hour no day has, and with a timer that refuses the job, followed by     *)
(* the timer running whatever was registered.                              *)
(***************************************************************************)
NextConfig ==
    \/ /\ calls < MaxConfigCalls
       /\ \E at \in Nows, time_str \in ConfigTimes, bs \in ConfigBatchSizes,
             tps \in JobPools : setup_daily_job(at, time_str, bs, tps)
    \/ /\ calls < MaxConfigCalls
       /\ \E at \in Nows, hours \in HoursChoices, bs \in ConfigBatchSizes,
             tps \in JobPools : setup_interval_job(at, hours, bs, tps)
    \/ /\ calls < MaxConfigCalls
       /\ \E at \in Nows, time_str \in ConfigTimes, tps \in JobPools :
             setup_daily_job_refused(at, time_str, 1, tps)
    \/ /\ calls < MaxConfigCalls
       /\ \E at \in Nows, hours \in HoursChoices, tps \in JobPools :
             setup_interval_job_refused(at, hours, 1, tps)
    \/ runs < MaxRuns /\ TimerFire
    \/ \E e \in Executors : ProcessTopic(e, JobScenarios)
    \/ \E e \in Executors : FinishBatch(e)

SpecConfig == Init /\ [][NextConfig]_vars

(***************************************************************************)
(* SpecHistory: get_history called between batches that succeed or fail.   *)
(***************************************************************************)
NextHistory ==
    \/ /\ calls < MaxPipelineSetups
       /\ \E at \in Nows, hours \in HoursChoices, tps \in TopicPools :
             setup_interval_job(at, hours, 1, tps)
    \/ runs < MaxHistoryRuns /\ \E bs \in BatchSizes : execute_now(bs)
    \/ \E limit \in 0..MaxLimit : get_history(limit)
    \/ \E e \in Executors : ProcessTopic(e, CapScenarios)
    \/ \E e \in Executors : FinishBatch(e)

SpecHistory == Init /\ [][NextHistory]_vars

(***************************************************************************)
(* SpecEmpty: batches over an empty topic pool, started by execute_now and *)
(* by the timer, for batch sizes around zero, with and without a job.      *)
(***************************************************************************)
EmptyPools == {<<>>, <<"A">>}

NextEmpty ==
    \/ /\ calls < MaxConfigCalls
       /\ \E at \in Nows, hours \in HoursChoices, bs \in ConfigBatchSizes,
             tps \in EmptyPools : setup_interval_job(at, hours, bs, tps)
    \/ calls < MaxConfigCalls /\ _reset_scheduler
    \/ runs < MaxRuns /\ \E bs \in ConfigBatchSizes : execute_now(bs)
    \/ runs < MaxRuns /\ TimerFire
    \/ \E e \in Executors : ProcessTopic(e, JobScenarios)
    \/ \E e \in Executors : FinishBatch(e)

SpecEmpty == Init /\ [][NextEmpty]_vars

(***************************************************************************)
(* Properties.                                                             *)
(***************************************************************************)
GenFailed(s) == s.gen \in {"fail", "raise"}
SaveFailed(s) == s.gen = "ok" /\ s.save \in {"fail", "raise"}
PublishFailed(s) == s.gen = "ok" /\ s.save = "ok" /\ s.git \in {"fail", "raise"}
LastOf(q) == q[Len(q)]

\* C1: a topic whose generator or artifact store fails or raises becomes one
\* Failed outcome carrying that collaborator's error, in the position of
\* the topic, and the batch leaves its loop only when every selected topic
\* has an outcome, all of which then reach the history.
C1_FailureIsolated ==
    /\ [](\A e \in Executors :
            /\ Len(results[e]) = Len(collab[e])
            /\ Len(results[e]) <= Len(selected_topics[e])
            /\ \A i \in 1..Len(results[e]) :
                 /\ results[e][i].topic = selected_topics[e][i]
                 /\ GenFailed(collab[e][i]) =>
                      /\ results[e][i].status = "failed"
                      /\ "error" \in DOMAIN results[e][i]
                      /\ results[e][i].error \in {"gen_error", "gen_exception"}
                 /\ SaveFailed(collab[e][i]) =>
                      /\ results[e][i].status = "failed"
                      /\ "error" \in DOMAIN results[e][i]
                      /\ results[e][i].error \in {"save_error", "save_exception"})
    /\ [][\A e \in Executors :
            (pc[e] = "for" /\ pc'[e] = "idle") =>
                /\ Len(results[e]) = Len(selected_topics[e])
                /\ appended' = appended \o results[e]]_vars

\* a batch whose first topic failed in the store has gone on to its second
C1_Witness ==
    \E e \in Executors :
        /\ Len(results[e]) = 2
        /\ SaveFailed(collab[e][1])
        /\ results[e][1].status = "failed"
        /\ results[e][2].status = "success"

\* C2: when generation and persistence succeed and the push fails, the
\* outcome is Success without an error field, success_count goes up by one,
\* failed_count stays, and the push error is the log line written last.
C2_PublishFailureIsLoggedOnly ==
    /\ [](\A e \in Executors : \A i \in 1..Len(results[e]) :
            PublishFailed(collab[e][i]) =>
                /\ results[e][i].status = "success"
                /\ "error" \notin DOMAIN results[e][i])
    /\ [][\A e \in Executors :
            (Len(collab'[e]) = Len(collab[e]) + 1
               /\ PublishFailed(LastOf(collab'[e]))) =>
                /\ stats'.success_count = stats.success_count + 1
                /\ stats'.failed_count = stats.failed_count
                /\ LastOf(log_messages').kind = "git_failed"
                /\ LastOf(log_messages').detail \in {"git_error", "git_exception"}]_vars

\* a topic was saved, its push failed, and it stands as a success
C2_Witness ==
    \E e \in Executors :
        /\ Len(results[e]) >= 1
        /\ PublishFailed(collab[e][1])
        /\ results[e][1].status = "success"
        /\ stats.success_count >= 1

SetupCalls == {"setup_daily_job", "setup_interval_job"}

\* C4: the timer never holds more than one job, and after a setup call that
\* returned True it holds exactly one, unpaused, with the trigger, batch
\* size and topic pool of that call.
C4_SingleJob ==
    /\ Cardinality(jobs) <= 1
    /\ (last_call.op \in SetupCalls /\ ret = TRUE) =>
          \E j \in jobs :
              /\ jobs = {j}
              /\ ~j.paused
              /\ j.id = job_id
              /\ j.batch_size = last_call.args[3]
              /\ j.topics = last_call.args[4]
              /\ last_call.op = "setup_daily_job" =>
                    /\ j.trigger.hours = 24
                    /\ j.id = "daily_note_generation"
              /\ last_call.op = "setup_interval_job" =>
                    /\ j.trigger.hours = last_call.args[2]
                    /\ j.id = "interval_note_generation"

\* an interval setup has replaced the job of a daily setup
C4_Witness ==
    /\ last_call.op = "setup_interval_job"
    /\ ret = TRUE
    /\ \E i \in 1..Len(log_messages) : log_messages[i].kind = "job_set"
    /\ \E j \in jobs : j.id = "interval_note_generation"

\* C5: execute_now and a timer-driven run are never inside _execute_batch
\* at the same time.
C5_OneBatchAtATime ==
    ~(pc["manual"] # "idle" /\ pc["timer"] # "idle")

InProgress == Cardinality({e \in Executors : pc[e] # "idle"})

CountStatus(q, status) == Cardinality({i \in 1..Len(q) : q[i].status = status})

Produced(status) ==
    CountStatus(appended, status) + CountStatus(results["manual"], status)
        + CountStatus(results["timer"], status)

C8_SelectionSize ==
    \A e \in Executors :
        pc[e] = "for" =>
            LET pool == batch_topics[e]
                sel == selected_topics[e]
                pos == selected_pos[e]
            IN  /\ Len(sel) = IF batch_size[e] <= Len(pool)
                              THEN batch_size[e] ELSE Len(pool)
                /\ Len(pos) = Len(sel)
                /\ \A i \in 1..Len(sel) :
                     /\ pos[i] \in 1..Len(pool)
                     /\ sel[i] = pool[pos[i]]
                /\ \A i, j \in 1..Len(sel) :
                     i # j => (pos[i] # pos[j] /\ sel[i] # sel[j])

\* a batch asked for more topics than the pool holds has processed the pool
C8_Witness ==
    \E e \in Executors :
        /\ pc[e] = "for"
        /\ batch_size[e] > Len(batch_topics[e])
        /\ Len(batch_topics[e]) >= 1
        /\ Len(results[e]) = Len(batch_topics[e])

Anchor(time_str) == time_str[1] * 3600 + time_str[2] * 60

\* the trigger of the registered daily job is the 24-hour trigger starting
\* at first
DailyJobStartsAt(first) ==
    \E j \in jobs :
        /\ j.id = "daily_note_generation"
        /\ j.trigger.hours = 24
        /\ j.trigger.start_date = first
        /\ first >= last_call.args[1]

\* C9 as stated: the 24-hour trigger starts today at the anchor when the
\* anchor is still in the future at the call, and tomorrow otherwise.
C9_FirstFireStrictlyFuture ==
    (last_call.op = "setup_daily_job" /\ ret = TRUE) =>
        LET at == last_call.args[1]
            anchor == Anchor(last_call.args[2])
        IN  DailyJobStartsAt(IF anchor > at THEN anchor ELSE anchor + 86400)

\* C9 amended: the 24-hour trigger starts today at the anchor when the
\* anchor is not earlier than the call, and tomorrow otherwise; it never
\* starts before the call.
C9_FirstFireNotPast ==
    (last_call.op = "setup_daily_job" /\ ret = TRUE) =>
        LET at == last_call.args[1]
            anchor == Anchor(last_call.args[2])
        IN  DailyJobStartsAt(IF anchor >= at THEN anchor ELSE anchor + 86400)

\* setup_daily_job was called at the very instant of its anchor
C9_Witness ==
    /\ last_call.op = "setup_daily_job"
    /\ ret = TRUE
    /\ last_call.args[1] = Anchor(last_call.args[2])
    /\ DailyJobStartsAt(last_call.args[1])

\* C10: every batch ends with one call of the completion callback, and the
\* argument of the call is the aggregate dictionary of the batch.
C10_CallbackOncePerBatch ==
    /\ cb_calls = stats.total_runs
    /\ cb_calls > 0 => cb_arg.type = "dict"

SameJob(j, j2) ==
    /\ j2.id = j.id
    /\ j2.trigger = j.trigger
    /\ j2.batch_size = j.batch_size
    /\ j2.topics = j.topics

\* C11: a timer-driven batch starts only for a job that is not paused, with
\* that job's pool; and a resume that follows a pause leaves the job the
\* pause found registered, unpaused and enabled, with the same trigger,
\* batch size and topic pool.
C11_PauseResume ==
    /\ [][(pc["timer"] = "idle" /\ pc'["timer"] = "for") =>
            \E j \in jobs : ~j.paused /\ batch_topics'["timer"] = j.topics]_vars
    /\ [][(last_call.op = "pause" /\ last_call'.op = "resume") =>
            \A j \in last_call.args[1] :
                j.id = job_id =>
                    /\ enabled'
                    /\ \E j2 \in jobs' : SameJob(j, j2) /\ ~j2.paused]_vars

\* a resume found the job paused and has set it going again
C11_Witness ==
    /\ last_call.op = "resume"
    /\ enabled
    /\ \E j \in last_call.args[1] :
          /\ j.paused
          /\ j.id = job_id
          /\ \E j2 \in jobs : SameJob(j, j2) /\ ~j2.paused

ControlCalls ==
    {"setup_daily_job", "setup_interval_job", "pause", "resume",
     "_reset_scheduler"}

\* C12: a call of pause, resume, the panel's reset or a setup leaves
\* total_runs, success_count, failed_count, last_run and the history as
\* they are and takes nothing out of the log buffer (a setup may append to
\* it).
C12_ControlKeepsRecords ==
    [][(calls' = calls + 1 /\ last_call'.op \in ControlCalls) =>
          /\ stats'.total_runs = stats.total_runs
          /\ stats'.success_count = stats.success_count
          /\ stats'.failed_count = stats.failed_count
          /\ stats'.last_run = stats.last_run
          /\ history' = history
          /\ Len(log_messages') >= Len(log_messages)
          /\ Len(log_messages') < 100 =>
                SubSeq(log_messages', 1, Len(log_messages)) = log_messages]_vars

\* C13: once the job has been removed (the panel's reset being the last
\* call), no job is registered, so that the timer has nothing to fire, and
\* stats.next_run is cleared.
C13_RemovedMeansNoJob ==
    last_call.op = "_reset_scheduler" =>
        /\ jobs = {}
        /\ stats.next_run = NoTime

\* C14: a setup call with a batch size below one returns False, and every
\* registered job has a batch size of at least one and a positive period.
C14_InvalidSetupRejected ==
    /\ \A j \in jobs : j.batch_size >= 1 /\ j.trigger.hours > 0
    /\ (last_call.op \in SetupCalls /\ last_call.args[3] <= 0) => ret = FALSE

\* C15: a setup call that returns False leaves the job store, job_id, the
\* stored config, the topic pool, the enabled flag and the stats as they
\* were.
C15_FailedSetupHasNoEffect ==
    [][(calls' = calls + 1 /\ last_call'.op \in SetupCalls /\ ret' = FALSE) =>
          UNCHANGED <<jobs, job_id, config, topics, enabled, stats>>]_vars

\* C16: get_history(limit) returns the min(limit, |history|) newest
\* outcomes, the newest first.
C16_HistoryNewestFirst ==
    last_call.op = "get_history" =>
        LET limit == last_call.args[1]
            n == IF limit <= Len(history) THEN limit ELSE Len(history)
        IN  /\ Len(ret) = n
            /\ \A i \in 1..n : ret[i] = history[Len(history) - i + 1]

\* C17: when no job is registered, a batch started by execute_now returns
\* without an exception and without touching total_runs, last_run or the
\* history.
C17_ExecuteNowWithoutJobIsNoOp ==
    [][(pc["manual"] = "for" /\ pc'["manual"] = "idle" /\ jobs = {}) =>
          /\ raised'["manual"] = None
          /\ stats'.total_runs = stats.total_runs
          /\ stats'.last_run = stats.last_run
          /\ history' = history]_vars

JobStates(js) ==
    {[id |-> j.id, trigger |-> j.trigger, paused |-> j.paused,
      batch_size |-> j.batch_size, topics |-> j.topics] : j \in js}

\* C18: from the step that enters execute_now to the step that leaves it,
\* job_id, the registered job with its trigger, arguments and paused flag,
\* the enabled flag, the stored config and the topic pool stay as they are.
C18_ExecuteNowKeepsJobState ==
    [][(pc["manual"] = "for" \/ pc'["manual"] = "for") =>
          /\ job_id' = job_id
          /\ JobStates(jobs') = JobStates(jobs)
          /\ enabled' = enabled
          /\ config' = config
          /\ topics' = topics]_vars

\* execute_now has run a batch to its end while the job was paused
C18_Witness ==
    /\ last_call.op = "execute_now"
    /\ pc["manual"] = "idle"
    /\ stats.total_runs >= 1
    /\ ~enabled
    /\ \E j \in jobs : j.id = job_id /\ j.paused

\* C19: the log buffer never holds more than 100 lines, and it is the
\* newest 100 (or all, below the cap) of the lines appended by setups and
\* batch steps, in their order.
C19_LogIsNewestHundred ==
    /\ Len(log_messages) <= 100
    /\ log_messages = IF Len(logged) <= 100 THEN logged
                      ELSE SubSeq(logged, Len(logged) - 99, Len(logged))

\* more than 100 lines were appended and the oldest were evicted
C19_Witness ==
    /\ Len(logged) > 100
    /\ Len(log_messages) = 100
    /\ log_messages[1] # logged[1]
    /\ log_messages[100] = logged[Len(logged)]

Outcomes ==
    {history[i] : i \in 1..Len(history)}
        \cup UNION {{results[e][i] : i \in 1..Len(results[e])} : e \in Executors}

ErrorIffFailed ==
    \A o \in Outcomes : ("error" \in DOMAIN o) <=> (o.status = "failed")

\* C20: every outcome in the history or in the results of a batch that has
\* status success carries a non-empty file path, and an outcome carries an
\* error exactly when its status is failed.
C20_SuccessCarriesPath ==
    /\ \A o \in Outcomes :
          o.status = "success" =>
              ("filepath" \in DOMAIN o /\ o.filepath # "")
    /\ ErrorIffFailed

\* C21: a batch that leaves its loop has exactly one outcome per selected
\* topic, in the order of the topics, failed where generation or the save
\* failed and success otherwise; these outcomes are what the history gains,
\* in that order, and the counters agree with the outcomes appended.
C21_OneOutcomePerTopic ==
    [][\A e \in Executors :
          (pc[e] = "for" /\ pc'[e] = "idle") =>
              LET r == results[e]
              IN  /\ Len(r) = Len(selected_topics[e])
                  /\ \A i \in 1..Len(r) :
                       /\ r[i].topic = selected_topics[e][i]
                       /\ r[i].status =
                            IF GenFailed(collab[e][i]) \/ SaveFailed(collab[e][i])
                            THEN "failed" ELSE "success"
                  /\ Len(history') = Len(history) + Len(r)
                  /\ SubSeq(history', 1, Len(history)) = history
                  /\ SubSeq(history', Len(history) + 1, Len(history')) = r
                  /\ InProgress = 1 =>
                       /\ stats'.success_count = CountStatus(appended', "success")
                       /\ stats'.failed_count = CountStatus(appended', "failed")]_vars

\* the first topic failed in the generator, the second succeeded, and the
\* batch is over
C21_Witness ==
    /\ InProgress = 0
    /\ stats.total_runs = 1
    /\ Len(history) = 2
    /\ history[1].status = "failed"
    /\ history[1].error \in {"gen_error", "gen_exception"}
    /\ history[2].status = "success"
    /\ history[1].topic # history[2].topic
    /\ stats.failed_count = 1
    /\ stats.success_count = 1

\* C22: a batch over an empty pool returns without an exception, whatever
\* its batch size, with no outcome, and leaves the history and the two
\* counters as they were.
C22_EmptyPoolBatch ==
    /\ []((last_call.op = "execute_now" /\ topics = <<>>
             /\ pc["manual"] = "idle") => raised["manual"] = None)
    /\ [][\A e \in Executors :
            (pc[e] = "for" /\ pc'[e] = "idle" /\ batch_topics[e] = <<>>) =>
                /\ results[e] = <<>>
                /\ history' = history
                /\ stats'.success_count = stats.success_count
                /\ stats'.failed_count = stats.failed_count]_vars

GitReturned == git_manager.pc = "idle" /\ git_manager.calls > 0

\* C23: a commit that reports nothing to commit counts as committed, and
\* the call goes on to the push (or, with auto_push off, to success).
C23_NothingToCommitIsSuccess ==
    \A i \in 1..Len(git_manager.cmds) :
        (git_manager.cmds[i].cmd = "commit"
           /\ git_manager.cmds[i].out \in {"nothing_stderr", "nothing_stdout"}) =>
            /\ git_manager.result.committed
            /\ IF git_manager.auto_push
               THEN \/ git_manager.pc = "push"
                    \/ \E j \in 1..Len(git_manager.cmds) :
                          git_manager.cmds[j].cmd = "push"
               ELSE git_manager.result.success

AuthOutput(output) ==
    "Authentication failed" \in output \/ "Permission denied" \in output

\* C24: a git command that fails, times out or cannot be run ends the call
\* with a result whose success is False and whose error is set; the error
\* is the authentication error when the push output speaks of
\* authentication or permission, the needs-pull error when it speaks (only)
\* of refs that failed to push, the timeout error when a command timed out,
\* and one of the other errors in every other case.
C24_FailureIsAValue ==
    /\ []((GitReturned /\ ~git_manager.result.success) =>
            LET last == LastOf(git_manager.cmds)
                error == git_manager.result.error
            IN  /\ git_manager.cmds # <<>>
                /\ error # None
                /\ error = "timeout" <=> last.out = "timeout"
                /\ error = "auth_failed" <=>
                      (last.cmd = "push" /\ last.out = "fail"
                         /\ AuthOutput(last.output))
                /\ error = "needs_pull" <=>
                      (last.cmd = "push" /\ last.out = "fail"
                         /\ ~AuthOutput(last.output)
                         /\ "failed to push some refs" \in last.output)
                /\ error \in {"timeout", "auth_failed", "needs_pull",
                              "add_failed", "commit_failed", "push_failed",
                              "exception"})
    /\ [][(Len(git_manager'.cmds) = Len(git_manager.cmds) + 1
             /\ LastOf(git_manager'.cmds).out \in {"fail", "timeout", "raise"}) =>
                /\ git_manager'.pc = "idle"
                /\ ~git_manager'.result.success
                /\ git_manager'.result.error # None]_vars

\* a push that was refused for authentication, with refs it failed to push
C24_Witness ==
    /\ GitReturned
    /\ git_manager.result.error = "auth_failed"
    /\ LastOf(git_manager.cmds).output =
          {"Authentication failed", "failed to push some refs"}

EnabledSteps(g) ==
    (IF g.auto_commit THEN <<"add", "commit">> ELSE <<>>)
        \o (IF g.auto_push THEN <<"push">> ELSE <<>>)

StepOK(r) == r.out = "ok" \/ (r.cmd = "commit" /\ r.out = "nothing_stderr")

\* C29: the commands a call runs are the enabled ones among add, commit,
\* push, in that order, each run only after those before it went well; the
\* result says success exactly when all of them were run and went well,
\* and then it has no error.
C29_StepsInOrder ==
    LET steps == EnabledSteps(git_manager)
        cmds == git_manager.cmds
    IN  /\ Len(cmds) <= Len(steps)
        /\ \A i \in 1..Len(cmds) : cmds[i].cmd = steps[i]
        /\ \A i \in 1..(Len(cmds) - 1) : StepOK(cmds[i])
        /\ GitReturned =>
              /\ git_manager.result.success <=>
                    (Len(cmds) = Len(steps) /\ \A i \in 1..Len(cmds) : StepOK(cmds[i]))
              /\ git_manager.result.success => git_manager.result.error = None
        /\ git_manager.result.added <=> \E i \in 1..Len(cmds) :
              cmds[i].cmd = "add" /\ StepOK(cmds[i])

\* the add went well, the commit failed, and no push was tried
C29_Witness ==
    /\ GitReturned
    /\ git_manager.auto_push
    /\ Len(git_manager.cmds) = 2
    /\ git_manager.cmds[2].cmd = "commit"
    /\ git_manager.cmds[2].out = "fail"
    /\ ~git_manager.result.success

\* C25: no save writes to a path that an earlier save has written, whether
\* the saves come one after the other or interleaved from the note panel
\* and the batch.
C25_NeverOverwrites ==
    \A i, j \in 1..Len(file_manager.written) :
        i # j => file_manager.written[i] # file_manager.written[j]

\* C26 as stated: whatever key was stored, encrypted by either mode or
\* kept as legacy plaintext, loading it gives the key back.
C26_RoundTrip ==
    crypto_manager.loaded => crypto_manager.decrypted = crypto_manager.api_key

Encodable(s) == \A i \in 1..Len(s) : ~IsSurrogate(s[i])

\* C26 (amended): in both modes decrypt(encrypt(p)) = p for every
\* plaintext p that UTF-8 can encode, the empty string included, and the
\* ciphertext of a non-empty p carries the mode's prefix; decrypt returns a
\* legacy plaintext unchanged exactly when it does not begin with
\* "encrypted:" or "encoded:".
C26_RoundTripEncodable ==
    /\ (crypto_manager.origin = "encrypted" /\ Encodable(crypto_manager.api_key)) =>
          /\ crypto_manager.api_key # <<>> =>
                StartsWith(crypto_manager.stored,
                           IF crypto_manager._fernet = None
                           THEN Prefix_encoded ELSE Prefix_encrypted)
          /\ crypto_manager.api_key = <<>> => crypto_manager.stored = <<>>
          /\ crypto_manager.loaded =>
                crypto_manager.decrypted = crypto_manager.api_key
    /\ (crypto_manager.origin = "legacy" /\ crypto_manager.loaded) =>
          (crypto_manager.decrypted = crypto_manager.api_key
              <=> ~Prefixed(crypto_manager.api_key))

\* a three-character key with a two-byte character came back from the
\* Fernet mode
C26_Witness ==
    /\ crypto_manager.origin = "encrypted"
    /\ crypto_manager._fernet # None
    /\ crypto_manager.loaded
    /\ crypto_manager.api_key = <<107, 233, 45>>
    /\ crypto_manager.decrypted = <<107, 233, 45>>
    /\ Len(crypto_manager.stored) > Len(Prefix_encrypted)

\* C27: enabled is true exactly when a job is registered with the timer and
\* is not paused, and job_id is set exactly when a job is registered.
C27_EnabledIffScheduled ==
    /\ enabled <=> \E j \in jobs : ~j.paused
    /\ job_id # None <=> jobs # {}

\* stats_panel.py:258-262, in whole percent
success_rate(stats_data) ==
    IF stats_data.total_runs > 0
    THEN (stats_data.success_count * 100) \div stats_data.total_runs
    ELSE 0

\* C28: success_count never exceeds total_runs, which keeps the success
\* rate success_count / total_runs within 0% .. 100%.
C28_SuccessRateBounded ==
    /\ stats.success_count <= stats.total_runs
    /\ success_rate(stats) \in 0..100

\* C30: a notify_job_complete call made with tray and popup notifications
\* enabled and no notification in the ten seconds before it shows both the
\* tray notification and the popup.
C30_BothShown ==
    (/\ notification_manager.op = "notify_job_complete"
     /\ notification_manager.quiet
     /\ notification_manager.tray_notification_enabled
     /\ notification_manager.popup_notification_enabled) =>
        /\ notification_manager.shown.tray
        /\ notification_manager.shown.popup

====
